---- MODULE Spec2Model ----
(***************************************************************************)
(* httpfs: a filesystem served over HTTP.  Each request names a file by    *)
(* its URL path, the basic-auth api key selects the sandbox directory and  *)
(* the HTTP method selects the file operation (httpfsServer.reqHandler and *)
(* writeFile / readFile / deleteFile).                                     *)
(*                                                                         *)
(* A path is the sequence of its segments.  Paths of the filesystem are    *)
(* relative to the working directory of the process, as FileRoot is in     *)
(* DefaultConfig ("files"); <<>> is "." and a leading ".." climbs above    *)
(* the working directory.                                                  *)
(***************************************************************************)
EXTENDS Integers, Sequences, FiniteSets, TLC

(***************************************************************************)
(* Bounds of the model.                                                    *)
(***************************************************************************)
\* segments of a URL path after the leading "/"
MaxSegs == 2
\* bytes a file holds at most
MaxLen == 3
\* regular files the filesystem holds at most
MaxFiles == 1
\* bytes a failing copy moves at most before its error
MaxFault == 1
\* requests the server handles at the same time
MaxHandlers == 2
\* connections the server has open at the same time
MaxConns == 2
\* termination signals sent to the process
MaxSignals == 2

(***************************************************************************)
(* Configuration (Config): the file root and the api key -> directory map. *)
(* Two keys share a sandbox, as the README allows.                         *)
(***************************************************************************)
FileRoot == <<"files">>

APIKeys == [k \in {"K1", "K2", "K3"} |->
              CASE k = "K1" -> "a"
                [] k = "K2" -> "b"
                [] k = "K3" -> "a"]

\* what req.BasicAuth() can return: (key, ok); a missing or malformed header
\* gives ("", false)
Creds == {[ok |-> TRUE, key |-> k] : k \in (DOMAIN APIKeys) \cup {"UNKNOWN"}}
           \cup {[ok |-> FALSE, key |-> ""]}

Methods == {"GET", "POST", "PUT", "DELETE", "PATCH"}

\* segment names: "a" names a file or directory and also the sandbox of K1 and
\* K3, so that a URL path can name it from the other sandbox
Segs == {"a", ".."}

RECURSIVE SeqsUpTo(_, _)
SeqsUpTo(S, n) ==
  IF n = 0 THEN {<<>>}
  ELSE LET shorter == SeqsUpTo(S, n - 1)
       IN  shorter \cup {Append(s, x) : s \in shorter, x \in S}

\* req.URL.Path: "/" is <<>>, "/a/b" is <<"a", "b">>
URLPaths == SeqsUpTo(Segs, MaxSegs)

Bodies == {<<>>, <<"x">>, <<"y", "x">>}

NoFault == [at |-> "none", n |-> 0]
CopyFaults == {[at |-> "copy", n |-> k] : k \in 0..MaxFault}

(***************************************************************************)
(* path/filepath: Clean, Join, Dir (lexical, the filesystem is not read).  *)
(***************************************************************************)
Clean(segs) ==
  LET F[i \in 0..Len(segs)] ==
        IF i = 0 THEN <<>>
        ELSE LET out == F[i - 1]
                 s == segs[i]
             IN  IF s \in {"", "."} THEN out
                 ELSE IF s = ".."
                   THEN IF Len(out) > 0 /\ out[Len(out)] # ".."
                          THEN SubSeq(out, 1, Len(out) - 1)
                          ELSE Append(out, "..")
                   ELSE Append(out, s)
  IN  F[Len(segs)]

Join(root, userdir, resourcePath) == Clean(root \o <<userdir>> \o resourcePath)

Dir(path) == IF Len(path) = 0 THEN <<>> ELSE SubSeq(path, 1, Len(path) - 1)

IsPrefix(p, q) == Len(p) <= Len(q) /\ SubSeq(q, 1, Len(p)) = p

(***************************************************************************)
(* The filesystem: the regular files with their content, and the           *)
(* directories.  ".", "..", "../.." ... always exist and are directories.  *)
(***************************************************************************)
IsAnchor(path) == \A i \in 1..Len(path) : path[i] = ".."

IsFile(fsys, path) == path \in DOMAIN fsys.files

IsDir(fsys, path) == IsAnchor(path) \/ path \in fsys.dirs

Exists(fsys, path) == IsFile(fsys, path) \/ IsDir(fsys, path)

HasChild(fsys, path) ==
  \E q \in (DOMAIN fsys.files) \cup fsys.dirs : Len(q) > 0 /\ Dir(q) = path

EmptyFS == [files |-> <<>>, dirs |-> {}]

WithFile(fsys, path, content) ==
  [fsys EXCEPT !.files =
     [q \in (DOMAIN fsys.files) \cup {path} |->
        IF q = path THEN content ELSE fsys.files[q]]]

WithoutFile(fsys, path) ==
  [fsys EXCEPT !.files = [q \in (DOMAIN fsys.files) \ {path} |-> fsys.files[q]]]

(***************************************************************************)
(* The os calls the three file functions make.  Each returns the new       *)
(* filesystem and an error ("" is nil).  fault is the failure the          *)
(* environment injects into this request (permission, disk, a body that    *)
(* stops arriving): fault.at names the call that fails.                    *)
(***************************************************************************)
Min(a, b) == IF a <= b THEN a ELSE b

\* (mutant) os.Mkdir in place of os.MkdirAll: only the last directory is made
MkdirOnlyLast(fsys, dir, fault) ==
  LET prefixes == {SubSeq(dir, 1, i) : i \in 0..Len(dir)}
  IN  IF fault.at = "mkdir" THEN [fs |-> fsys, err |-> "EACCES"]
      ELSE IF \E p \in prefixes : IsFile(fsys, p)
        THEN [fs |-> fsys, err |-> "ENOTDIR"]
      ELSE IF IsDir(fsys, dir) THEN [fs |-> fsys, err |-> ""]
      ELSE IF ~IsDir(fsys, Dir(dir)) THEN [fs |-> fsys, err |-> "ENOENT"]
        ELSE [fs |-> [fsys EXCEPT !.dirs = @ \cup {dir}], err |-> ""]

\* (mutant) the error of a directory that exists already is not ignored
MkdirAllStrict(fsys, dir, fault) ==
  LET prefixes == {SubSeq(dir, 1, i) : i \in 0..Len(dir)}
  IN  IF fault.at = "mkdir" THEN [fs |-> fsys, err |-> "EACCES"]
      ELSE IF \E p \in prefixes : IsFile(fsys, p)
        THEN [fs |-> fsys, err |-> "ENOTDIR"]
      ELSE IF IsDir(fsys, dir) THEN [fs |-> fsys, err |-> "EEXIST"]
        ELSE [fs |-> [fsys EXCEPT !.dirs = @ \cup {p \in prefixes : ~IsAnchor(p)}],
              err |-> ""]

\* os.MkdirAll(dir, dirPerm): creates dir and every missing parent; fails
\* when dir or one of its parents is a regular file
MkdirAll(fsys, dir, fault) ==
  LET prefixes == {SubSeq(dir, 1, i) : i \in 0..Len(dir)}
  IN  IF fault.at = "mkdir" THEN [fs |-> fsys, err |-> "EACCES"]
      ELSE IF \E p \in prefixes : IsFile(fsys, p)
        THEN [fs |-> fsys, err |-> "ENOTDIR"]
        ELSE [fs |-> [fsys EXCEPT !.dirs = @ \cup {p \in prefixes : ~IsAnchor(p)}],
              err |-> ""]

\* (mutant) the flag is dropped: an existing file is never truncated
OpenFileNeverTrunc(fsys, path, flag, fault) ==
  IF fault.at = "open" THEN [fs |-> fsys, err |-> "EACCES"]
  ELSE IF IsDir(fsys, path) THEN [fs |-> fsys, err |-> "EISDIR"]
  ELSE IF ~IsDir(fsys, Dir(path)) THEN [fs |-> fsys, err |-> "ENOENT"]
  ELSE IF IsFile(fsys, path) THEN [fs |-> fsys, err |-> ""]
  ELSE [fs |-> WithFile(fsys, path, <<>>), err |-> ""]

\* (mutant) os.O_TRUNC whatever the flag: an existing file is always truncated
OpenFileAlwaysTrunc(fsys, path, flag, fault) ==
  IF fault.at = "open" THEN [fs |-> fsys, err |-> "EACCES"]
  ELSE IF IsDir(fsys, path) THEN [fs |-> fsys, err |-> "EISDIR"]
  ELSE IF ~IsDir(fsys, Dir(path)) THEN [fs |-> fsys, err |-> "ENOENT"]
  ELSE [fs |-> WithFile(fsys, path, <<>>), err |-> ""]

\* os.OpenFile(path, flag|os.O_CREATE|os.O_WRONLY, filePerm)
OpenFile(fsys, path, flag, fault) ==
  IF fault.at = "open" THEN [fs |-> fsys, err |-> "EACCES"]
  ELSE IF IsDir(fsys, path) THEN [fs |-> fsys, err |-> "EISDIR"]
  ELSE IF ~IsDir(fsys, Dir(path)) THEN [fs |-> fsys, err |-> "ENOENT"]
  ELSE IF IsFile(fsys, path)
    THEN [fs |-> IF flag = "O_TRUNC" THEN WithFile(fsys, path, <<>>) ELSE fsys,
          err |-> ""]
    ELSE [fs |-> WithFile(fsys, path, <<>>), err |-> ""]

\* (mutant) the bytes go to the start of the file, over what is there
CopyInFromStart(fsys, path, src, fault) ==
  LET n == IF fault.at = "copy" THEN Min(fault.n, Len(src)) ELSE Len(src)
      old == fsys.files[path]
  IN  [fs |-> WithFile(fsys, path, SubSeq(src, 1, n) \o SubSeq(old, n + 1, Len(old))),
       err |-> IF fault.at = "copy" THEN "EIO" ELSE ""]

\* io.Copy(file, src) into the file opened for writing: the bytes go to the
\* end of the file; a failing copy has moved fault.n bytes at most
CopyIn(fsys, path, src, fault) ==
  LET n == IF fault.at = "copy" THEN Min(fault.n, Len(src)) ELSE Len(src)
  IN  [fs |-> WithFile(fsys, path, fsys.files[path] \o SubSeq(src, 1, n)),
       err |-> IF fault.at = "copy" THEN "EIO" ELSE ""]

\* (mutant) os.RemoveAll: no error for a path that does not exist
RemoveAll(fsys, path, fault) ==
  IF fault.at = "remove" THEN [fs |-> fsys, err |-> "EACCES"]
  ELSE IF IsFile(fsys, path) THEN [fs |-> WithoutFile(fsys, path), err |-> ""]
  ELSE IF IsAnchor(path) THEN [fs |-> fsys, err |-> "EINVAL"]
  ELSE IF path \in fsys.dirs
    THEN [fs |-> [files |-> [q \in {f \in DOMAIN fsys.files : ~IsPrefix(path, f)}
                              |-> fsys.files[q]],
                  dirs |-> {d \in fsys.dirs : ~IsPrefix(path, d)}],
          err |-> ""]
    ELSE [fs |-> fsys, err |-> ""]

\* os.Remove(path): a regular file or an empty directory
Remove(fsys, path, fault) ==
  IF fault.at = "remove" THEN [fs |-> fsys, err |-> "EACCES"]
  ELSE IF IsFile(fsys, path) THEN [fs |-> WithoutFile(fsys, path), err |-> ""]
  ELSE IF IsAnchor(path) THEN [fs |-> fsys, err |-> "EINVAL"]
  ELSE IF path \in fsys.dirs
    THEN IF HasChild(fsys, path)
           THEN [fs |-> fsys, err |-> "ENOTEMPTY"]
           ELSE [fs |-> [fsys EXCEPT !.dirs = @ \ {path}], err |-> ""]
    ELSE [fs |-> fsys, err |-> "ENOENT"]

(***************************************************************************)
(* writeFile, readFile, deleteFile.  calls lists the os calls made, each   *)
(* with the path it was given.                                             *)
(***************************************************************************)
writeFile(fsys, flag, path, src, fault) ==
  LET dir == Dir(path)
      made == MkdirAll(fsys, dir, fault)
      opened == OpenFile(made.fs, path, flag, fault)
      copied == CopyIn(opened.fs, path, src, fault)
      mk == <<[call |-> "MkdirAll", path |-> dir]>>
      op == <<[call |-> "OpenFile", path |-> path]>>
  IN  IF made.err # "" THEN [fs |-> made.fs, err |-> made.err, calls |-> mk]
      ELSE IF opened.err # ""
        THEN [fs |-> opened.fs, err |-> opened.err, calls |-> mk \o op]
        ELSE [fs |-> copied.fs, err |-> copied.err, calls |-> mk \o op]

\* sent is what io.Copy wrote into the response before it returned
readFile(fsys, path, fault) ==
  LET op == <<[call |-> "Open", path |-> path]>>
  IN  IF fault.at = "open" THEN [err |-> "EACCES", sent |-> <<>>, calls |-> op]
      ELSE IF ~Exists(fsys, path) THEN [err |-> "ENOENT", sent |-> <<>>, calls |-> op]
      ELSE IF IsDir(fsys, path) THEN [err |-> "EISDIR", sent |-> <<>>, calls |-> op]
      ELSE IF fault.at = "copy"
        THEN [err |-> "EIO",
              sent |-> SubSeq(fsys.files[path], 1, Min(fault.n, Len(fsys.files[path]))),
              calls |-> op]
        ELSE [err |-> "", sent |-> fsys.files[path], calls |-> op]

deleteFile(fsys, path, fault) ==
  LET removed == Remove(fsys, path, fault)
  IN  [fs |-> removed.fs, err |-> removed.err,
       calls |-> <<[call |-> "Remove", path |-> path]>>]

(***************************************************************************)
(* httpfsServer.reqHandler.  A request is [method, auth, path, body]; the  *)
(* result is the new filesystem, the response the client receives, the os  *)
(* calls made, the local path the request was resolved to, whether the     *)
(* deferred req.Body.Close() was registered before the return, and err,    *)
(* the error of the file function ("" is nil), which goes to the log.      *)
(*                                                                         *)
(* The response: status, text (the message of http.Error, "" without one)  *)
(* and data (the file bytes written into it).  The status is fixed by the  *)
(* first byte written: an http.Error after io.Copy has written file bytes  *)
(* appends its text and leaves the status 200.                             *)
(***************************************************************************)
Response(code, msg, sent) == [status |-> code, text |-> msg, data |-> sent]

\* fs.settings.APIKeys[apikey(key)]: the directory and whether the key is there
Lookup(key) ==
  IF key \in DOMAIN APIKeys THEN [userdir |-> APIKeys[key], found |-> TRUE]
  ELSE [userdir |-> "", found |-> FALSE]

\* (mutant) the two tests joined by && instead of ||
UnrecognizedBoth(auth) == ~auth.ok /\ ~Lookup(auth.key).found

\* if !ok || !found
Unrecognized(auth) == ~auth.ok \/ ~Lookup(auth.key).found

\* (mutant) the path compared with "" instead of "/": never equal
NoFileSpecifiedEmpty(resourcePath) == resourcePath = <<"">>

\* if resourcePath == "/"
NoFileSpecified(resourcePath) == resourcePath = <<>>

\* (mutant) a method outside the four cases handled by the PUT case
DoingPatchAsPut(method) ==
  CASE method = "GET" -> "reading"
    [] method = "DELETE" -> "deleting"
    [] method = "POST" -> "appending"
    [] OTHER -> "truncating"

\* switch req.Method: the case taken ("" is the default case)
Doing(method) ==
  CASE method = "GET" -> "reading"
    [] method = "DELETE" -> "deleting"
    [] method = "POST" -> "appending"
    [] method = "PUT" -> "truncating"
    [] OTHER -> ""

\* fmt.Sprintf("error %s file", doing)
ErrorText(doing) ==
  CASE doing = "reading" -> "error reading file"
    [] doing = "deleting" -> "error deleting file"
    [] doing = "appending" -> "error appending file"
    [] doing = "truncating" -> "error truncating file"

\* if err != nil { http.Error(w, "error <doing> file", 500) } after the switch
Translate(doing, err, sent) ==
  IF err = "" THEN Response(200, "", sent)
  ELSE Response(IF sent = <<>> THEN 500 ELSE 200, ErrorText(doing), sent)

reqHandler(fsys, req, fault) ==
  LET userdir == Lookup(req.auth.key).userdir
      resourcePath == req.path
      localpath == Join(FileRoot, userdir, resourcePath)
      doing == Doing(req.method)
      none == <<>>
  IN  IF Unrecognized(req.auth)
        THEN [fs |-> fsys, resp |-> Response(401, "unrecognized api key", <<>>),
              calls |-> none, localpath |-> none, bodyClosed |-> FALSE, err |-> ""]
      ELSE IF NoFileSpecified(resourcePath)
        THEN [fs |-> fsys, resp |-> Response(400, "no file specified", <<>>),
              calls |-> none, localpath |-> localpath, bodyClosed |-> FALSE, err |-> ""]
      ELSE IF doing = "reading"
        THEN LET r == readFile(fsys, localpath, fault)
             IN  [fs |-> fsys, resp |-> Translate(doing, r.err, r.sent),
                  calls |-> r.calls, localpath |-> localpath, bodyClosed |-> TRUE,
                  err |-> r.err]
      ELSE IF doing = "deleting"
        THEN LET r == deleteFile(fsys, localpath, fault)
             IN  [fs |-> r.fs, resp |-> Translate(doing, r.err, <<>>),
                  calls |-> r.calls, localpath |-> localpath, bodyClosed |-> TRUE,
                  err |-> r.err]
      ELSE IF doing = "appending"
        THEN LET r == writeFile(fsys, "O_APPEND", localpath, req.body, fault)
             IN  [fs |-> r.fs, resp |-> Translate(doing, r.err, <<>>),
                  calls |-> r.calls, localpath |-> localpath, bodyClosed |-> TRUE,
                  err |-> r.err]
      ELSE IF doing = "truncating"
        THEN LET r == writeFile(fsys, "O_TRUNC", localpath, req.body, fault)
             IN  [fs |-> r.fs, resp |-> Translate(doing, r.err, <<>>),
                  calls |-> r.calls, localpath |-> localpath, bodyClosed |-> TRUE,
                  err |-> r.err]
      ELSE [fs |-> fsys, resp |-> Response(405, "Unsupported method", <<>>),
            calls |-> none, localpath |-> localpath, bodyClosed |-> TRUE, err |-> ""]

(***************************************************************************)
(* State.  fs is the filesystem.  conn is the request being served: idle,  *)
(* then pending (the server has read a request and is about to call        *)
(* reqHandler with it), then done (reqHandler has returned; conn holds     *)
(* what it did), then idle again.                                          *)
(*                                                                         *)
(* before is a history variable: while conn is done, the filesystem and    *)
(* run as they were when reqHandler was called.                            *)
(*                                                                         *)
(* run is a history variable.  It follows one local path from a write to   *)
(* it for as long as no later request other than a GET resolves to that    *)
(* path: kind "put" after a PUT answered 200, with data the body of that   *)
(* PUT; kind "posts" after a POST answered 200 to a path that did not      *)
(* exist, with data the bodies of that POST and of the POSTs answered 200  *)
(* that followed it, in request order.                                     *)
(*                                                                         *)
(* logger is the level of the one LevelLogger of the server (fs.logger),   *)
(* which SetLevel sets and every Printf and Println of that logger uses.   *)
(*                                                                         *)
(* hs holds the handlers that run at the same time, one goroutine each,    *)
(* in the specification of concurrent writers below.                       *)
(*                                                                         *)
(* The process, in the specification of the server's life below: cfg the   *)
(* TLS settings, main the main goroutine, serve the goroutine that runs    *)
(* fs.ListenAndServe, srv the http.Server (its listener, whether Shutdown  *)
(* was called, its connections), proc the process and its exit status,     *)
(* lines what ListenAndServe and Shutdown have logged, sig the signals     *)
(* sent to the process.                                                    *)
(***************************************************************************)
VARIABLES fs, conn, run, before, logger, hs, cfg, main, serve, srv, proc, lines, sig

lifeVars == <<cfg, main, serve, srv, proc, lines, sig>>

vars == <<fs, conn, run, before, logger, hs, lifeVars>>

\* fs.logger.SetLevel(level): the level of the shared logger after the call
SetLevel(level) == level

Handlers == 1..MaxHandlers

Conns == 1..MaxConns

\* a connection slot of the server with no connection in it
NoConn ==
  [state |-> "free",
   req |-> [method |-> "", auth |-> [ok |-> FALSE, key |-> ""], path |-> <<>>,
            body |-> <<>>],
   status |-> 0,
   acceptedLate |-> FALSE,
   late |-> FALSE,
   atCall |-> FALSE]

\* the process before main has started the server
InitLife ==
  /\ main = [pc |-> "start", err |-> ""]
  /\ serve = [pc |-> "none", mode |-> "", bound |-> "", err |-> ""]
  /\ srv = [listener |-> "none", inShutdown |-> FALSE, conns |-> [c \in Conns |-> NoConn]]
  /\ proc = [up |-> TRUE, status |-> 0]
  /\ lines = {}
  /\ sig = [sent |-> 0, lost |-> 0]

\* a goroutine of the server that is not handling a request
Parked ==
  [pc |-> "idle",
   req |-> [method |-> "", auth |-> [ok |-> FALSE, key |-> ""], path |-> <<>>,
            body |-> <<>>],
   localpath |-> <<>>,
   off |-> 0,
   rest |-> <<>>,
   err |-> "",
   status |-> 0,
   seq |-> 0,
   met |-> {},
   base |-> <<>>]

Request(m, a, p, b) == [method |-> m, auth |-> a, path |-> p, body |-> b]

Idle ==
  [phase |-> "idle",
   req |-> Request("", [ok |-> FALSE, key |-> ""], <<>>, <<>>),
   fault |-> NoFault,
   resp |-> Response(0, "", <<>>),
   calls |-> <<>>,
   localpath |-> <<>>,
   bodyClosed |-> FALSE,
   err |-> ""]

NoRun == [kind |-> "none", path |-> <<>>, data |-> <<>>]

NoBefore == [fs |-> EmptyFS, run |-> NoRun]

Init ==
  /\ fs = EmptyFS
  /\ conn = Idle
  /\ run = NoRun
  /\ before = NoBefore
  /\ logger = SetLevel("Info")
  /\ hs = [h \in Handlers |-> Parked]
  /\ cfg = [cert |-> "", key |-> ""]
  /\ InitLife

\* the bounds on the filesystem
WithinBounds(fsys) ==
  /\ Cardinality(DOMAIN fsys.files) <= MaxFiles
  /\ \A p \in DOMAIN fsys.files : Len(fsys.files[p]) <= MaxLen

Requests ==
  {Request(m, a, p, <<>>) : m \in Methods \ {"POST", "PUT"}, a \in Creds, p \in URLPaths}
    \cup {Request(m, a, p, b) : m \in {"POST", "PUT"}, a \in Creds, p \in URLPaths,
                                b \in Bodies}

\* the failures the environment can inject into the file function of a method
Faults(method) ==
  CASE method = "GET" -> {NoFault, [at |-> "open", n |-> 0]} \cup CopyFaults
    [] method = "DELETE" -> {NoFault, [at |-> "remove", n |-> 0]}
    [] method \in {"POST", "PUT"} ->
         {NoFault, [at |-> "mkdir", n |-> 0], [at |-> "open", n |-> 0]} \cup CopyFaults
    [] OTHER -> {NoFault}

\* the server reads a request and routes it to reqHandler (the "/" pattern
\* matches every path)
Receive ==
  /\ conn.phase = "idle"
  /\ \E req \in Requests :
       /\ WithinBounds(reqHandler(fs, req, NoFault).fs)
       /\ conn' = [Idle EXCEPT !.phase = "pending", !.req = req]
  /\ UNCHANGED <<fs, run, before, logger, hs, lifeVars>>

NextRun(fsys, req, out) ==
  LET ok == out.resp.status = 200
      onPath == out.calls # <<>> /\ out.localpath = run.path /\ run.kind # "none"
  IN  IF out.calls = <<>> \/ req.method = "GET" THEN run
      ELSE IF req.method = "PUT" /\ ok
        THEN [kind |-> "put", path |-> out.localpath, data |-> req.body]
      ELSE IF req.method = "POST" /\ ok /\ ~Exists(fsys, out.localpath)
        THEN [kind |-> "posts", path |-> out.localpath, data |-> req.body]
      ELSE IF req.method = "POST" /\ ok /\ onPath /\ run.kind = "posts"
        THEN [kind |-> "posts", path |-> run.path, data |-> run.data \o req.body]
      ELSE IF onPath THEN NoRun
      ELSE run

\* reqHandler from its first line to its return
Handle ==
  /\ conn.phase = "pending"
  /\ \E fault \in Faults(conn.req.method) :
       LET out == reqHandler(fs, conn.req, fault)
       IN  /\ fs' = out.fs
           /\ conn' = [phase |-> "done", req |-> conn.req,
                       fault |-> IF out.calls = <<>> THEN NoFault ELSE fault,
                       resp |-> out.resp, calls |-> out.calls,
                       localpath |-> out.localpath, bodyClosed |-> out.bodyClosed,
                       err |-> out.err]
           /\ run' = NextRun(fs, conn.req, out)
           /\ before' = [fs |-> fs, run |-> run]
           /\ logger' = IF out.err # "" THEN SetLevel("Err") ELSE SetLevel("Info")
           /\ UNCHANGED <<hs, lifeVars>>

HandleGet ==
  /\ conn.req.method = "GET"
  /\ Handle

HandleDelete ==
  /\ conn.req.method = "DELETE"
  /\ Handle

HandlePost ==
  /\ conn.req.method = "POST"
  /\ Handle

HandlePut ==
  /\ conn.req.method = "PUT"
  /\ Handle

HandleOther ==
  /\ conn.req.method \notin {"GET", "DELETE", "POST", "PUT"}
  /\ Handle

\* the response has gone to the client; the server waits for the next request
Finish ==
  /\ conn.phase = "done"
  /\ conn' = Idle
  /\ before' = NoBefore
  /\ UNCHANGED <<fs, run, logger, hs, lifeVars>>

Next ==
  \/ Receive
  \/ HandleGet
  \/ HandleDelete
  \/ HandlePost
  \/ HandlePut
  \/ HandleOther
  \/ Finish

Spec == Init /\ [][Next]_vars

(***************************************************************************)
(* Concurrent writers.  net/http runs reqHandler in one goroutine per      *)
(* connection, so several handlers run at the same time on the one         *)
(* filesystem and the one logger.  Here MaxHandlers goroutines serve POST  *)
(* and PUT requests with a configured key, and a step is one access to     *)
(* what they share: a call of the logger or one system call of writeFile.  *)
(* A handler that has returned stays "done" until its response is gone,    *)
(* with its request and status; seq numbers the handlers that are done in  *)
(* the order they returned.  Handlers take requests in the order of their  *)
(* numbers (which goroutine serves a request makes no difference).         *)
(*                                                                         *)
(* The disk holds MaxFiles files of MaxLen bytes: creating or writing      *)
(* beyond that fails with ENOSPC, as a full disk does.                     *)
(***************************************************************************)
\* the requests of the concurrent handlers: the writes of one client
ConcRequests ==
  {r \in Requests : /\ r.method \in {"POST", "PUT"}
                    /\ r.auth = [ok |-> TRUE, key |-> "K1"]
                    /\ ~NoFileSpecified(r.path)
                    /\ \A i \in DOMAIN r.path : r.path[i] # ".."}

\* the flag reqHandler passes to writeFile
Flag(method) == IF method = "POST" THEN "O_APPEND" ELSE "O_TRUNC"

\* (mutant) every write goes to the end of the file, as with O_APPEND
WriteAtEnd(content, off, chunk) == content \o chunk

\* write(2) of chunk at offset off of a file opened without O_APPEND: bytes
\* there are overwritten, and a gap past the end of the file reads as zeros
WriteAt(content, off, chunk) ==
  LET gap == IF off > Len(content) THEN [i \in 1..(off - Len(content)) |-> "0"]
             ELSE <<>>
      padded == content \o gap
  IN  SubSeq(padded, 1, off) \o chunk
        \o SubSeq(padded, off + Len(chunk) + 1, Len(padded))

\* (mutant) the flag is dropped: every write goes to the descriptor's offset
WriteChunkNoAppend(content, flag, off, chunk) == WriteAt(content, off, chunk)

\* io.Copy's next file.Write: with O_APPEND the kernel moves to the end of
\* the file before the write, otherwise the write goes to the descriptor's
\* own offset
WriteChunk(content, flag, off, chunk) ==
  IF flag = "O_APPEND" THEN content \o chunk ELSE WriteAt(content, off, chunk)

\* a handler is between its first line and its return
Running(g) == hs[g].pc \notin {"idle", "done"}

\* history, for appends that run at the same time.  met of a running POST
\* is the handler whose request ran with it, {} when it ran alone so far and
\* {0} when more than one request did; base is the content of the file when
\* it opened it.  A handler that is done keeps both until the next request
\* begins.
MetAtBegin(req) ==
  LET others == {k \in Handlers : Running(k)}
  IN  IF req.method # "POST" THEN {}
      ELSE IF Cardinality(others) <= 1 THEN others
      ELSE {0}

\* the record of handler g when the request of handler h begins
Noted(g, h) ==
  IF Running(g) /\ hs[g].req.method = "POST"
    THEN [hs[g] EXCEPT !.met = IF @ = {} THEN {h} ELSE {0},
                       !.base = IF hs[g].met = {} THEN @ ELSE <<>>]
  ELSE IF hs[g].pc = "done" THEN [hs[g] EXCEPT !.met = {}, !.base = <<>>]
  ELSE hs[g]

\* handlers that have returned and whose response is not gone yet
Returned == {g \in Handlers : hs[g].pc = "done"}

\* reqHandler lines 80-100 for a POST or PUT with a configured key: the first
\* access to shared state is SetLevel(Info)
Begin(h) ==
  /\ hs[h].pc = "idle"
  /\ \A g \in Handlers : g < h => hs[g].pc # "idle"
  /\ \E req \in ConcRequests :
       LET began == [hs EXCEPT ![h] =
                       [Parked EXCEPT !.pc = "log", !.req = req, !.rest = req.body,
                          !.localpath = Join(FileRoot, Lookup(req.auth.key).userdir,
                                             req.path)]]
       IN  hs' = [g \in Handlers |->
                    IF g = h THEN [began[h] EXCEPT !.met = MetAtBegin(req)]
                    ELSE Noted(g, h)]
  /\ logger' = SetLevel("Info")
  /\ UNCHANGED <<fs, conn, run, before, lifeVars>>

\* line 101: the informational line, at the level the logger has now
LogRequest(h) ==
  /\ hs[h].pc = "log"
  /\ hs' = [hs EXCEPT ![h].pc = "mkdir"]
  /\ UNCHANGED <<fs, conn, run, before, logger, lifeVars>>

\* writeFile lines 142-145
MakeDirs(h) ==
  /\ hs[h].pc = "mkdir"
  /\ LET made == MkdirAll(fs, Dir(hs[h].localpath), NoFault)
     IN  /\ fs' = made.fs
         /\ hs' = [hs EXCEPT ![h].pc = IF made.err = "" THEN "open" ELSE "failed",
                             ![h].err = made.err]
  /\ UNCHANGED <<conn, run, before, logger, lifeVars>>

\* writeFile lines 148-151
Open(h) ==
  /\ hs[h].pc = "open"
  /\ LET path == hs[h].localpath
         full == ~IsFile(fs, path) /\ Cardinality(DOMAIN fs.files) >= MaxFiles
         opened == IF full THEN [fs |-> fs, err |-> "ENOSPC"]
                   ELSE OpenFile(fs, path, Flag(hs[h].req.method), NoFault)
     IN  /\ fs' = opened.fs
         /\ hs' = [hs EXCEPT ![h].pc = IF opened.err = "" THEN "copy" ELSE "failed",
                             ![h].err = opened.err,
                             ![h].base = IF opened.err = "" /\ hs[h].met # {0}
                                              /\ hs[h].req.method = "POST"
                                           THEN opened.fs.files[path]
                                         ELSE <<>>]
  /\ UNCHANGED <<conn, run, before, logger, lifeVars>>

\* writeFile line 155: one Write of io.Copy, of the next bytes of the body
Write(h) ==
  /\ hs[h].pc = "copy"
  /\ hs[h].rest # <<>>
  /\ \E n \in 1..Len(hs[h].rest) :
       LET path == hs[h].localpath
           chunk == SubSeq(hs[h].rest, 1, n)
           content == WriteChunk(fs.files[path], Flag(hs[h].req.method), hs[h].off, chunk)
       IN  IF Len(content) > MaxLen
             THEN /\ hs' = [hs EXCEPT ![h].pc = "failed", ![h].err = "ENOSPC"]
                  /\ fs' = fs
             ELSE /\ hs' = [hs EXCEPT ![h].off = @ + n,
                                      ![h].rest = SubSeq(@, n + 1, Len(@))]
                  /\ fs' = WithFile(fs, path, content)
  /\ UNCHANGED <<conn, run, before, logger, lifeVars>>

\* the body is at its end: io.Copy and writeFile return nil, and reqHandler
\* returns with status 200
Return(h) ==
  /\ hs[h].pc = "copy"
  /\ hs[h].rest = <<>>
  /\ hs' = [hs EXCEPT ![h] = [Parked EXCEPT !.pc = "done", !.req = hs[h].req,
                                  !.localpath = hs[h].localpath, !.status = 200,
                                  !.seq = Cardinality(Returned) + 1,
                                  !.met = hs[h].met, !.base = hs[h].base]]
  /\ UNCHANGED <<fs, conn, run, before, logger, lifeVars>>

\* line 131, after writeFile returned an error
RaiseLevel(h) ==
  /\ hs[h].pc = "failed"
  /\ hs' = [hs EXCEPT ![h].pc = "logerr"]
  /\ logger' = SetLevel("Err")
  /\ UNCHANGED <<fs, conn, run, before, lifeVars>>

\* lines 132-133: the error line, at the level the logger has now, then
\* http.Error with 500 and the return
LogError(h) ==
  /\ hs[h].pc = "logerr"
  /\ hs' = [hs EXCEPT ![h] = [Parked EXCEPT !.pc = "done", !.req = hs[h].req,
                                  !.localpath = hs[h].localpath, !.status = 500,
                                  !.seq = Cardinality(Returned) + 1]]
  /\ UNCHANGED <<fs, conn, run, before, logger, lifeVars>>

\* the response has gone to the client
End(h) ==
  /\ hs[h].pc = "done"
  /\ hs' = [g \in Handlers |->
              IF g = h THEN Parked
              ELSE IF hs[g].pc = "done" /\ hs[g].seq > hs[h].seq
                THEN [hs[g] EXCEPT !.seq = @ - 1]
                ELSE hs[g]]
  /\ UNCHANGED <<fs, conn, run, before, logger, lifeVars>>

NextConc ==
  \E h \in Handlers :
    \/ Begin(h)
    \/ LogRequest(h)
    \/ MakeDirs(h)
    \/ Open(h)
    \/ Write(h)
    \/ Return(h)
    \/ RaiseLevel(h)
    \/ LogError(h)
    \/ End(h)

SpecConc == Init /\ [][NextConc]_vars

(***************************************************************************)
(* The life of the server: main (NewHTTPFSServer, the goroutine that runs  *)
(* fs.ListenAndServe, signal.Notify, <-sig, fs.Shutdown with a one-minute  *)
(* context, return) and httpfsServer.ListenAndServe / Shutdown, over the   *)
(* http.Server they drive.                                                 *)
(*                                                                         *)
(* A connection is "new" from its accept until its first request has been  *)
(* read, "active" while reqHandler runs, "idle" between requests and       *)
(* "closed" at its end (http.ConnState).  Its fields late, acceptedLate    *)
(* and atCall are history: the request was dispatched, the connection was  *)
(* accepted, after Shutdown was called; the request was running when       *)
(* Shutdown was called.  serve.bound is history too: whether the address   *)
(* was bound.  Time is not counted: the context of Shutdown can  *)
(* expire at any moment after its creation.                                *)
(***************************************************************************)
TLSPaths == {[cert |-> c, key |-> k] : c \in {"", "cert.pem"}, k \in {"", "key.pem"}}

\* the requests the clients send while the server lives
LifeRequests ==
  {Request("PUT", [ok |-> TRUE, key |-> "K1"], <<"a">>, <<"x">>),
   Request("GET", [ok |-> TRUE, key |-> "K1"], <<"a">>, <<>>)}

\* (mutant) plaintext only when both paths are empty
NoTLSBoth(settings) == settings.cert = "" /\ settings.key = ""

\* if fs.settings.TLSCertPath == "" || fs.settings.TLSKeyPath == ""
NoTLS(settings) == settings.cert = "" \/ settings.key = ""

\* (mutant) the server-closed result is reported as an error too
FatalAny(err) == err # ""

\* (mutant) == in place of the second !=
FatalOnlyClosed(err) == err # "" /\ err = "ErrServerClosed"

\* if err != nil && err != http.ErrServerClosed
Fatal(err) == err # "" /\ err # "ErrServerClosed"

\* (mutant) the listener goes on accepting after Shutdown
AcceptingStill == srv.listener \in {"http", "https", "closed"}

\* the listener is open: Accept returns connections
Accepting == srv.listener \in {"http", "https"}

\* (mutant) a server.ListenAndServe that does not look at the mark
ShuttingDownUnseen == FALSE

\* srv.shuttingDown(): Shutdown has marked the server
ShuttingDown == srv.inShutdown

\* (mutant) Shutdown does not wait for the requests that are running
QuiescentNew(conns) == \A c \in Conns : conns[c].state # "new"

\* closeIdleConns found no connection that is new or active
Quiescent(conns) == \A c \in Conns : conns[c].state \notin {"new", "active"}

lifeFrame == UNCHANGED <<conn, run, before, hs>>

\* main: fs := NewHTTPFSServer(cfg); go func() { ... }()
Spawn ==
  /\ proc.up
  /\ main.pc = "start"
  /\ main' = [main EXCEPT !.pc = "spawned"]
  /\ serve' = [serve EXCEPT !.pc = "ready"]
  /\ logger' = SetLevel("Info")
  /\ UNCHANGED <<fs, cfg, srv, proc, lines, sig>>
  /\ lifeFrame

\* main: sig := make(chan os.Signal); signal.Notify(sig, ...)
Notify ==
  /\ proc.up
  /\ main.pc = "spawned"
  /\ main' = [main EXCEPT !.pc = "notified"]
  /\ UNCHANGED <<fs, logger, cfg, serve, srv, proc, lines, sig>>
  /\ lifeFrame

\* main: <-sig, the goroutine parks on the channel
Wait ==
  /\ proc.up
  /\ main.pc = "notified"
  /\ main' = [main EXCEPT !.pc = "waiting"]
  /\ UNCHANGED <<fs, logger, cfg, serve, srv, proc, lines, sig>>
  /\ lifeFrame

\* an interrupt or terminate signal reaches the process.  Before
\* signal.Notify it ends the process; after it the runtime sends it on the
\* channel without blocking: sig has no buffer, so the signal is received
\* only when main is parked in <-sig and is dropped otherwise
Signal ==
  /\ proc.up
  /\ sig.sent < MaxSignals
  /\ IF main.pc \in {"start", "spawned"}
       THEN /\ proc' = [up |-> FALSE, status |-> 2]
            /\ main' = main
            /\ sig' = [sig EXCEPT !.sent = @ + 1]
       ELSE IF main.pc = "waiting"
         THEN /\ main' = [main EXCEPT !.pc = "signalled"]
              /\ proc' = proc
              /\ sig' = [sig EXCEPT !.sent = @ + 1]
         ELSE /\ main' = main
              /\ proc' = proc
              /\ sig' = [sent |-> sig.sent + 1, lost |-> sig.lost + 1]
  /\ UNCHANGED <<fs, logger, cfg, serve, srv, lines>>
  /\ lifeFrame

\* main: ctx with a one-minute timeout; fs.Shutdown(ctx) up to the start of
\* server.Shutdown, which marks the server and closes the listener
CallShutdown ==
  /\ proc.up
  /\ main.pc = "signalled"
  /\ main' = [main EXCEPT !.pc = "draining"]
  /\ logger' = SetLevel("Info")
  /\ lines' = lines \cup {[level |-> SetLevel("Info"), msg |-> "attempting to shutdown server"]}
  /\ srv' = [listener |-> IF Accepting THEN "closed" ELSE srv.listener,
             inShutdown |-> TRUE,
             conns |-> [c \in Conns |->
                          [srv.conns[c] EXCEPT !.atCall = (srv.conns[c].state = "active")]]]
  /\ UNCHANGED <<fs, cfg, serve, proc, sig>>
  /\ lifeFrame

\* server.Shutdown, one round of its loop: closeIdleConns closes the idle
\* connections and the new ones that have sent nothing for five seconds;
\* Shutdown returns nil when none is left new or active
Poll ==
  /\ proc.up
  /\ main.pc = "draining"
  /\ \E stale \in SUBSET {c \in Conns : srv.conns[c].state = "new"} :
       LET closed == [c \in Conns |->
                        IF srv.conns[c].state = "idle" \/ c \in stale
                          THEN [srv.conns[c] EXCEPT !.state = "closed"]
                          ELSE srv.conns[c]]
       IN  /\ srv' = [srv EXCEPT !.conns = closed]
           /\ main' = IF Quiescent(closed) THEN [pc |-> "returned", err |-> ""] ELSE main
  /\ UNCHANGED <<fs, logger, cfg, serve, proc, lines, sig>>
  /\ lifeFrame

\* server.Shutdown: the context expires first and Shutdown returns its error
Expire ==
  /\ proc.up
  /\ main.pc = "draining"
  /\ main' = [pc |-> "returned", err |-> "deadline"]
  /\ UNCHANGED <<fs, logger, cfg, serve, srv, proc, lines, sig>>
  /\ lifeFrame

\* main returns (the result of fs.Shutdown is dropped): the process ends
\* with status 0 and every connection with it
Exit ==
  /\ proc.up
  /\ main.pc = "returned"
  /\ proc' = [up |-> FALSE, status |-> 0]
  /\ UNCHANGED <<fs, logger, cfg, main, serve, srv, lines, sig>>
  /\ lifeFrame

\* ListenAndServe lines 54-57 and 60-61: the level, the choice and its lines
Select ==
  /\ proc.up
  /\ serve.pc = "ready"
  /\ logger' = SetLevel("Info")
  /\ IF NoTLS(cfg)
       THEN /\ serve' = [serve EXCEPT !.pc = "selected", !.mode = "http"]
            /\ lines' = lines \cup {[level |-> SetLevel("Info"),
                                     msg |-> "no TLS certificate and/or key provided"],
                                    [level |-> SetLevel("Info"), msg |-> "listening for http"]}
       ELSE /\ serve' = [serve EXCEPT !.pc = "selected", !.mode = "https"]
            /\ lines' = lines \cup {[level |-> SetLevel("Info"), msg |-> "using certificate"],
                                    [level |-> SetLevel("Info"), msg |-> "listening for https"]}
  /\ UNCHANGED <<fs, cfg, main, srv, proc, sig>>
  /\ lifeFrame

\* lines 58 and 62: server.ListenAndServe or ListenAndServeTLS.  After
\* Shutdown it returns ErrServerClosed at once; otherwise it binds the
\* address (and loads the certificate), which can fail
Listen ==
  /\ proc.up
  /\ serve.pc = "selected"
  /\ IF ShuttingDown
       THEN /\ serve' = [serve EXCEPT !.pc = "stopped", !.err = "ErrServerClosed"]
            /\ srv' = srv
       ELSE \/ /\ serve' = [serve EXCEPT !.pc = "serving", !.bound = "yes"]
               /\ srv' = [srv EXCEPT !.listener = serve.mode]
            \/ /\ serve' = [serve EXCEPT !.pc = "stopped", !.bound = "failed",
                                          !.err = "bind"]
               /\ srv' = srv
  /\ UNCHANGED <<fs, logger, cfg, main, proc, lines, sig>>
  /\ lifeFrame

\* the accept loop of the server finds the server shut down and returns
\* ErrServerClosed
Closed ==
  /\ proc.up
  /\ serve.pc = "serving"
  /\ srv.inShutdown
  /\ serve' = [serve EXCEPT !.pc = "stopped", !.err = "ErrServerClosed"]
  /\ UNCHANGED <<fs, logger, cfg, main, srv, proc, lines, sig>>
  /\ lifeFrame

\* ListenAndServe lines 64-69
Report ==
  /\ proc.up
  /\ serve.pc = "stopped"
  /\ IF Fatal(serve.err)
       THEN /\ logger' = SetLevel("Alert")
            /\ lines' = lines \cup {[level |-> SetLevel("Alert"), msg |-> "error starting server"]}
            /\ serve' = [serve EXCEPT !.pc = "reterr"]
       ELSE /\ logger' = logger
            /\ lines' = lines
            /\ serve' = [serve EXCEPT !.pc = "retnil", !.err = ""]
  /\ UNCHANGED <<fs, cfg, main, srv, proc, sig>>
  /\ lifeFrame

\* main's goroutine: if fs.ListenAndServe() != nil { os.Exit(1) }
Die ==
  /\ proc.up
  /\ serve.pc = "reterr"
  /\ proc' = [up |-> FALSE, status |-> 1]
  /\ serve' = [serve EXCEPT !.pc = "ended"]
  /\ UNCHANGED <<fs, logger, cfg, main, srv, lines, sig>>
  /\ lifeFrame

\* main's goroutine: ListenAndServe returned nil, the goroutine ends
Done ==
  /\ proc.up
  /\ serve.pc = "retnil"
  /\ serve' = [serve EXCEPT !.pc = "ended"]
  /\ UNCHANGED <<fs, logger, cfg, main, srv, proc, lines, sig>>
  /\ lifeFrame

\* the accept loop takes a connection
Accept(c) ==
  /\ proc.up
  /\ serve.pc = "serving"
  /\ Accepting
  /\ srv.conns[c].state = "free"
  /\ srv' = [srv EXCEPT !.conns[c] = [NoConn EXCEPT !.state = "new",
                                                    !.acceptedLate = srv.inShutdown]]
  /\ UNCHANGED <<fs, logger, cfg, main, serve, proc, lines, sig>>
  /\ lifeFrame

\* a request arrives on a connection and the server calls reqHandler with it
Arrive(c) ==
  /\ proc.up
  /\ srv.conns[c].state \in {"new", "idle"}
  /\ \E req \in LifeRequests :
       srv' = [srv EXCEPT !.conns[c] = [@ EXCEPT !.state = "active", !.req = req,
                                                 !.status = 0, !.atCall = FALSE,
                                                 !.late = srv.inShutdown]]
  /\ UNCHANGED <<fs, logger, cfg, main, serve, proc, lines, sig>>
  /\ lifeFrame

\* reqHandler returns and the response goes out; the connection is kept
\* for the next request unless the server is shutting down
Complete(c) ==
  /\ proc.up
  /\ srv.conns[c].state = "active"
  /\ LET out == reqHandler(fs, srv.conns[c].req, NoFault)
     IN  /\ fs' = out.fs
         /\ logger' = IF out.err # "" THEN SetLevel("Err") ELSE SetLevel("Info")
         /\ srv' = [srv EXCEPT !.conns[c] =
                      [@ EXCEPT !.state = IF srv.inShutdown THEN "closed" ELSE "idle",
                                !.status = out.resp.status]]
  /\ UNCHANGED <<cfg, main, serve, proc, lines, sig>>
  /\ lifeFrame

\* the client, or a timeout of the server, closes a connection that has no
\* request running
Hangup(c) ==
  /\ proc.up
  /\ srv.conns[c].state \in {"new", "idle"}
  /\ srv' = [srv EXCEPT !.conns[c] =
               IF srv.inShutdown THEN [@ EXCEPT !.state = "closed"] ELSE NoConn]
  /\ UNCHANGED <<fs, logger, cfg, main, serve, proc, lines, sig>>
  /\ lifeFrame

NextLife ==
  \/ Spawn
  \/ Notify
  \/ Wait
  \/ Signal
  \/ CallShutdown
  \/ Poll
  \/ Expire
  \/ Exit
  \/ Select
  \/ Listen
  \/ Closed
  \/ Report
  \/ Die
  \/ Done
  \/ \E c \in Conns : Accept(c)
  \/ \E c \in Conns : Arrive(c)
  \/ \E c \in Conns : Complete(c)
  \/ \E c \in Conns : Hangup(c)

\* the configuration file can hold any TLS settings
InitAnyConfig ==
  /\ fs = EmptyFS
  /\ conn = Idle
  /\ run = NoRun
  /\ before = NoBefore
  /\ logger = SetLevel("Info")
  /\ hs = [h \in Handlers |-> Parked]
  /\ cfg \in TLSPaths
  /\ InitLife

SpecLife == InitAnyConfig /\ [][NextLife]_vars

(***************************************************************************)
(* Properties.  In a state where conn is done, reqHandler has just been    *)
(* called with conn.req and has returned: before holds the state it was    *)
(* called in, fs and run the state it left.                                *)
(***************************************************************************)
KnownKey(auth) == auth.ok /\ auth.key \in DOMAIN APIKeys

\* the sandbox directory of a configured key: file_root/D
Sandbox(key) == FileRoot \o <<APIKeys[key]>>

StrictlyInside(path, dir) == IsPrefix(dir, path) /\ Len(path) > Len(dir)

FileMethods == {"GET", "POST", "PUT", "DELETE"}

\* reqHandler has returned from a request
Handled == conn.phase = "done"

\* reqHandler has returned from a request of this method with a configured
\* key on a path other than "/"
Dispatched(method) ==
  /\ Handled
  /\ conn.req.method = method
  /\ KnownKey(conn.req.auth)
  /\ conn.req.path # <<>>

\* the local path of the request: file_root/D/normalize(P)
Resolved == Clean(Sandbox(conn.req.auth.key) \o conn.req.path)

\* the paths the calls of the request opened, created, wrote or removed
Touched ==
  {conn.calls[i].path : i \in {j \in DOMAIN conn.calls : conn.calls[j].call # "MkdirAll"}}

\* C1: for every configured key with sandbox directory D and every URL path
\* P, a GET, POST, PUT or DELETE handled by reqHandler opens, creates, writes
\* or removes only the path file_root/D/normalize(P), and that path is
\* strictly inside file_root/D.
C1_Containment ==
  (Handled /\ KnownKey(conn.req.auth) /\ conn.req.method \in FileMethods)
    => \A p \in Touched : p = Resolved /\ StrictlyInside(p, Sandbox(conn.req.auth.key))

\* C2: a request made with a key of one sandbox directory never changes the
\* response of any request made with a key of another sandbox directory
\* (tenants never see each other's files).
C2_TenantIsolation ==
  (Handled /\ KnownKey(conn.req.auth))
    => \A r \in Requests :
         (KnownKey(r.auth) /\ APIKeys[r.auth.key] # APIKeys[conn.req.auth.key])
           => reqHandler(fs, r, NoFault).resp = reqHandler(before.fs, r, NoFault).resp

\* C3: a request whose basic-auth header is missing or malformed, or whose
\* key is not in the credential table, is answered 401 whatever its method
\* and path, makes no os call and leaves the filesystem as it was.
C3_Unauthorized ==
  (Handled /\ ~KnownKey(conn.req.auth))
    => /\ conn.resp = Response(401, "unrecognized api key", <<>>)
       /\ conn.calls = <<>>
       /\ fs = before.fs

C3_Witness ==
  /\ Handled
  /\ conn.req.auth.key = "UNKNOWN"
  /\ conn.req.method = "DELETE"
  /\ conn.req.path = <<"a">>
  /\ conn.resp.status = 401
  /\ IsFile(fs, <<"files", "a", "a">>)

\* C4: an authenticated request whose URL path is exactly "/" is answered
\* 400 "no file specified" whatever its method, and makes no os call.
C4_RootPath ==
  (Handled /\ KnownKey(conn.req.auth) /\ conn.req.path = <<>>)
    => /\ conn.resp = Response(400, "no file specified", <<>>)
       /\ conn.calls = <<>>
       /\ fs = before.fs

C4_Witness ==
  /\ Handled
  /\ KnownKey(conn.req.auth)
  /\ conn.req.path = <<>>
  /\ conn.req.method = "PATCH"
  /\ conn.resp.status = 400
  /\ fs # EmptyFS

\* C5: an authenticated request on a path other than "/" with a method
\* other than GET, POST, PUT, DELETE is answered 405 and makes no os call;
\* the same request with an unrecognized credential is answered 401.
C5_MethodNotAllowed ==
  (Handled /\ conn.req.method \notin FileMethods)
    => /\ conn.calls = <<>>
       /\ fs = before.fs
       /\ (KnownKey(conn.req.auth) /\ conn.req.path # <<>>)
            => conn.resp = Response(405, "Unsupported method", <<>>)
       /\ ~KnownKey(conn.req.auth) => conn.resp.status = 401

C5_Witness ==
  /\ Dispatched("PATCH")
  /\ conn.req.path = <<"a">>
  /\ conn.resp.status = 405
  /\ IsFile(fs, Resolved)

\* C6: after a PUT of body B answered 200, and with no request on the same
\* file since then other than GETs, a GET that resolves to that file and
\* meets no injected failure is answered 200 with body exactly B, whatever
\* the file held before the PUT.
C6_PutThenGet ==
  (Dispatched("GET") /\ before.run.kind = "put" /\ Resolved = before.run.path
     /\ conn.fault = NoFault)
    => conn.resp = Response(200, "", before.run.data)

C6_Witness ==
  /\ Dispatched("GET")
  /\ conn.req.auth.key = "K3"
  /\ conn.req.path = <<"a">>
  /\ before.run.kind = "put"
  /\ before.run.path = Resolved
  /\ conn.resp = Response(200, "", <<"y", "x">>)

\* C7: a PUT of body B repeated on a file whose last write was a PUT of B
\* answered 200 is answered 200 again and leaves the whole filesystem as the
\* first PUT left it.
C7_PutIdempotent ==
  (Dispatched("PUT") /\ before.run.kind = "put" /\ Resolved = before.run.path
     /\ conn.req.body = before.run.data /\ conn.fault = NoFault)
    => /\ conn.resp = Response(200, "", <<>>)
       /\ fs = before.fs

C7_Witness ==
  /\ Dispatched("PUT")
  /\ conn.req.path = <<"a", "a">>
  /\ conn.req.body = <<"y", "x">>
  /\ conn.resp.status = 200
  /\ before.run = [kind |-> "put", path |-> Resolved, data |-> conn.req.body]

\* C8: a DELETE on a path that does not exist is answered 500 "error
\* deleting file" and changes nothing; a DELETE on an existing file that
\* meets no injected failure is answered 200, the file is gone, and a GET of
\* that path with a key of the same sandbox is then answered 500.
C8_Delete ==
  Dispatched("DELETE")
    => /\ ~Exists(before.fs, Resolved)
            => /\ conn.resp = Response(500, "error deleting file", <<>>)
               /\ fs = before.fs
       /\ (IsFile(before.fs, Resolved) /\ conn.fault = NoFault)
            => /\ conn.resp = Response(200, "", <<>>)
               /\ ~Exists(fs, Resolved)
               /\ \A a \in Creds, f \in Faults("GET") :
                    (KnownKey(a) /\ APIKeys[a.key] = APIKeys[conn.req.auth.key])
                      => reqHandler(fs, Request("GET", a, conn.req.path, <<>>), f).resp
                           = Response(500, "error reading file", <<>>)

C8_Witness ==
  /\ Dispatched("DELETE")
  /\ conn.req.path = <<"a">>
  /\ conn.fault = NoFault
  /\ conn.resp = Response(500, "error deleting file", <<>>)
  /\ ~Exists(before.fs, Resolved)
  /\ IsDir(fs, Dir(Resolved))

\* C9: after POSTs of bodies B1 .. Bn answered 200, one after the other, to
\* a path that did not exist before the first, and with no other request on
\* that file than GETs, a GET that resolves to the file and meets no
\* injected failure is answered 200 with body B1 .. Bn in request order.
C9_AppendAccumulates ==
  (Dispatched("GET") /\ before.run.kind = "posts" /\ Resolved = before.run.path
     /\ conn.fault = NoFault)
    => conn.resp = Response(200, "", before.run.data)

C9_Witness ==
  /\ Dispatched("GET")
  /\ before.run.kind = "posts"
  /\ before.run.path = Resolved
  /\ conn.resp = Response(200, "", <<"x", "y", "x">>)

\* C10: after a POST to a path that is a file, whether the POST succeeds or
\* fails at directory creation, at open or partway through the body, the
\* path is still a file and what it held before is a prefix of what it
\* holds.
C10_AppendKeepsContent ==
  (Dispatched("POST") /\ IsFile(before.fs, Resolved))
    => /\ IsFile(fs, Resolved)
       /\ IsPrefix(before.fs.files[Resolved], fs.files[Resolved])

C10_Witness ==
  /\ Dispatched("POST")
  /\ conn.req.body = <<"y", "x">>
  /\ conn.fault = [at |-> "copy", n |-> 1]
  /\ conn.resp.status = 500
  /\ IsFile(before.fs, Resolved)
  /\ before.fs.files[Resolved] = <<"x">>
  /\ fs.files[Resolved] = <<"x", "y">>

\* the file function of the request returned an error
Failed ==
  /\ Handled
  /\ KnownKey(conn.req.auth)
  /\ conn.req.path # <<>>
  /\ conn.req.method \in FileMethods
  /\ conn.err # ""

\* C11: every failure of the file operation, whatever its kind and wherever
\* in the operation it happens, is answered 500 with the generic message of
\* the method and nothing else; no failed operation is answered 200.
C11_FailureIs500 ==
  Failed => conn.resp = Response(500, ErrorText(Doing(conn.req.method)), <<>>)

\* C12: for a fixed method the status and body of a failure response are the
\* same for every error cause, every sandbox directory and every resolved
\* path: any failing request of the method of the request just handled, with
\* any configured key, path and injected failure, gets the response this
\* one got.
C12_NoLeak ==
  Failed =>
    \A r \in Requests, g \in Faults(conn.req.method) :
      (r.method = conn.req.method /\ KnownKey(r.auth) /\ r.path # <<>>
         /\ reqHandler(before.fs, r, g).err # "")
        => reqHandler(before.fs, r, g).resp = conn.resp

\* C13: last writer wins for concurrent PUTs.  When two PUTs to the same
\* path, both answered 200, have returned, the file holds exactly the body of
\* the one that returned last, never a mixture of the two bodies.
C13_LastWriterWins ==
  \A g, h \in Handlers :
    (/\ hs[g].pc = "done" /\ hs[h].pc = "done"
     /\ hs[g].seq < hs[h].seq
     /\ hs[g].req.method = "PUT" /\ hs[h].req.method = "PUT"
     /\ hs[g].status = 200 /\ hs[h].status = 200
     /\ hs[g].localpath = hs[h].localpath)
      => /\ IsFile(fs, hs[h].localpath)
         /\ fs.files[hs[h].localpath] = hs[h].req.body

\* the messages ListenAndServe and Shutdown have logged
Logged == {l.msg : l \in lines}

\* C14 (as claimed): once Shutdown has been called, no request that arrives
\* is dispatched to reqHandler.
C14_NoLateDispatch ==
  \A c \in Conns : ~srv.conns[c].late

\* C14 (amended): once Shutdown has been called the listener is closed and
\* accepts no connection, so a request dispatched to reqHandler after the
\* call arrived on a connection that was accepted before the call.
C14_NoLateAccept ==
  /\ srv.inShutdown => ~Accepting
  /\ \A c \in Conns : ~srv.conns[c].acceptedLate

C14_Witness ==
  \E c \in Conns :
    /\ srv.conns[c].late
    /\ srv.conns[c].state = "closed"
    /\ srv.conns[c].req.method = "PUT"
    /\ srv.conns[c].status = 200
    /\ ~srv.conns[c].acceptedLate

\* C15: a request that was running when Shutdown was called is not
\* interrupted unless the grace period expires: when the process has stopped
\* and Shutdown had returned without the deadline error, reqHandler has
\* returned from it and its response (200 for the PUT) has gone out.
C15_InFlightCompletes ==
  \A c \in Conns :
    (srv.conns[c].atCall /\ ~proc.up /\ main.err # "deadline")
      => /\ srv.conns[c].state = "closed"
         /\ srv.conns[c].status # 0
         /\ srv.conns[c].req.method = "PUT" => srv.conns[c].status = 200

C15_Witness ==
  \E c \in Conns :
    /\ srv.conns[c].atCall
    /\ srv.conns[c].req.method = "PUT"
    /\ srv.conns[c].status = 200
    /\ main = [pc |-> "returned", err |-> ""]
    /\ ~proc.up
    /\ IsFile(fs, <<"files", "a", "a">>)

\* C16: after a termination signal the server reaches Stopped: once a signal
\* has been sent to the process, the process has stopped or main has taken
\* the signal and is on its way through Shutdown to its return.
C16_ShutdownTerminates ==
  sig.sent > 0 => (~proc.up \/ main.pc \in {"signalled", "draining", "returned"})

\* C17: ListenAndServe listens with TLS exactly when the certificate path
\* and the key path are both non-empty; otherwise it listens in plaintext
\* and logs the warning; it never starts both listeners.
C17_TLSSelection ==
  serve.mode # ""
    => /\ serve.mode = "https" <=> (cfg.cert # "" /\ cfg.key # "")
       /\ serve.mode = "http" <=> "no TLS certificate and/or key provided" \in Logged
       /\ "listening for https" \in Logged <=> serve.mode = "https"
       /\ "listening for http" \in Logged <=> serve.mode = "http"
       /\ Accepting => srv.listener = serve.mode

C17_Witness ==
  /\ cfg = [cert |-> "cert.pem", key |-> ""]
  /\ srv.listener = "http"
  /\ "no TLS certificate and/or key provided" \in Logged
  /\ \E c \in Conns : srv.conns[c].status = 200

\* C18: a binding failure at start is fatal.  No connection is accepted and
\* no request served; ListenAndServe logs the error at Alert and returns it;
\* the goroutine of main then ends the process with status 1, and while main
\* has received no signal the process never ends with status 0.
C18_BindFailureFatal ==
  serve.bound = "failed"
    => /\ srv.listener = "none"
       /\ \A c \in Conns : srv.conns[c] = NoConn
       /\ serve.pc \in {"reterr", "ended"}
            => [level |-> "Alert", msg |-> "error starting server"] \in lines
       /\ serve.pc \in {"stopped", "reterr", "ended"}
       /\ serve.pc = "ended" => (~proc.up /\ proc.status = 1)
       /\ (~proc.up /\ main.pc \in {"start", "spawned", "notified", "waiting"})
            => proc.status # 0

C18_Witness ==
  /\ serve.bound = "failed"
  /\ serve.pc = "ended"
  /\ main.pc = "waiting"
  /\ proc = [up |-> FALSE, status |-> 1]
  /\ cfg.cert # ""
  /\ cfg.key # ""

\* the state of the server's life
Lifecycle ==
  IF ~proc.up THEN "Stopped"
  ELSE IF srv.inShutdown THEN "Draining"
  ELSE IF Accepting THEN "Listening"
  ELSE "Configured"

Rank(state) ==
  CASE state = "Configured" -> 1
    [] state = "Listening" -> 2
    [] state = "Draining" -> 3
    [] state = "Stopped" -> 4

\* C21 (as claimed): the life of the server only moves forward through
\* Configured -> Listening -> Draining -> Stopped under every interleaving
\* of main and its goroutine: no state is entered again, Draining is entered
\* only from Listening, and the server never listens after Shutdown was
\* called.
C21_ForwardChain ==
  [][/\ Rank(Lifecycle') >= Rank(Lifecycle)
     /\ (Lifecycle' = "Draining" /\ Lifecycle # "Draining") => Lifecycle = "Listening"
     /\ srv.inShutdown' => ~Accepting']_vars

\* C21 (amended): the life of the server only moves forward in the order
\* Configured, Listening, Draining, Stopped, and a state can be skipped:
\* Draining is entered from Listening or, when the signal comes before the
\* listener is bound, from Configured.  No state is entered again, and the
\* server never listens after Shutdown was called.
C21_Forward ==
  [][/\ Rank(Lifecycle') >= Rank(Lifecycle)
     /\ srv.inShutdown' => (~Accepting' /\ srv.listener' \in {srv.listener, "closed"})]_vars

C21_Witness ==
  /\ Lifecycle = "Draining"
  /\ serve.bound = ""
  /\ serve.pc = "stopped"
  /\ serve.err = "ErrServerClosed"
  /\ srv.listener = "none"

\* C22: an error returned by the graceful shutdown (the grace period expired
\* with requests still running) is written to the server log, and the
\* process does not exit as a failure.
C22_ShutdownErrorLogged ==
  (~proc.up /\ main = [pc |-> "returned", err |-> "deadline"])
    => /\ proc.status = 0
       /\ \E l \in lines : l.msg \notin {"attempting to shutdown server",
                                         "no TLS certificate and/or key provided",
                                         "listening for http", "using certificate",
                                         "listening for https"}

\* the directories above the local path of the request
Parents == {SubSeq(Resolved, 1, i) : i \in 0..(Len(Resolved) - 1)}

C24_LineLevels ==
  \A h \in Handlers :
    /\ hs[h].pc = "log" => logger = SetLevel("Info")
    /\ hs[h].pc = "logerr" => logger = SetLevel("Err")

\* s holds the bytes of a in order and the bytes of b in order and no other
RECURSIVE IsShuffle(_, _, _)
IsShuffle(s, a, b) ==
  IF s = <<>> THEN a = <<>> /\ b = <<>>
  ELSE \/ a # <<>> /\ Head(a) = Head(s) /\ IsShuffle(Tail(s), Tail(a), b)
       \/ b # <<>> /\ Head(b) = Head(s) /\ IsShuffle(Tail(s), a, Tail(b))

\* handlers g and h ran at the same time, and no other request ran with them
Overlapped(g, h) == hs[g].met = {h} /\ hs[h].met = {g}

\* C25: concurrent appends lose no data.  When two POSTs to one path ran
\* at the same time and both were answered 200, the file afterwards is the
\* content it had before the two (old), followed by the bytes of the two
\* bodies, each body in its order: its length is old + |A| + |B|.
C25_AppendsKept ==
  \A g, h \in Handlers :
    (/\ hs[g].pc = "done" /\ hs[h].pc = "done"
     /\ hs[g].seq < hs[h].seq
     /\ hs[g].req.method = "POST" /\ hs[h].req.method = "POST"
     /\ hs[g].status = 200 /\ hs[h].status = 200
     /\ hs[g].localpath = hs[h].localpath
     /\ Overlapped(g, h))
      => LET old == IF Len(hs[g].base) <= Len(hs[h].base) THEN hs[g].base
                    ELSE hs[h].base
             final == fs.files[hs[h].localpath]
         IN  /\ Len(final) = Len(old) + Len(hs[g].req.body) + Len(hs[h].req.body)
             /\ IsPrefix(old, final)
             /\ IsShuffle(SubSeq(final, Len(old) + 1, Len(final)),
                          hs[g].req.body, hs[h].req.body)

C25_Witness ==
  \E g, h \in Handlers :
    /\ hs[g].pc = "done" /\ hs[h].pc = "done"
    /\ hs[g].seq < hs[h].seq
    /\ hs[g].req.method = "POST" /\ hs[h].req.method = "POST"
    /\ hs[g].status = 200 /\ hs[h].status = 200
    /\ hs[g].localpath = hs[h].localpath
    /\ Overlapped(g, h)
    /\ hs[g].req.body = <<"y", "x">>
    /\ hs[h].req.body = <<"x">>
    /\ hs[g].base = <<>> /\ hs[h].base = <<>>
    /\ fs.files[hs[h].localpath] = <<"y", "x", "x">>

\* C26: a graceful shutdown is not reported as a start-up failure.  When
\* the server stops because Shutdown was called, ListenAndServe returns nil
\* whichever of main and its goroutine ran first: the goroutine logs
\* "error starting server" and ends the process with status 1 only when
\* binding failed.
C26_ShutdownNotFailure ==
  /\ serve.pc = "reterr" => serve.bound = "failed"
  /\ "error starting server" \in Logged => serve.bound = "failed"
  /\ (~proc.up /\ proc.status = 1) => serve.bound = "failed"
  /\ (serve.pc \in {"retnil", "ended"} /\ serve.bound # "failed")
       => (srv.inShutdown /\ serve.err = "")

C26_Witness ==
  /\ ~proc.up
  /\ proc.status = 0
  /\ serve.pc = "ended"
  /\ serve.bound = "yes"
  /\ main = [pc |-> "returned", err |-> "deadline"]
  /\ \E c \in Conns : srv.conns[c].state = "active"

\* C19: no cross-request shared mutable state.  While a handler is running,
\* no step of another handler changes a variable of the server that handlers
\* read or write: the credential table, the settings, the logger.
C19_NoSharedState ==
  [][(\E g \in Handlers : Running(g) /\ hs'[g] = hs[g]) => logger' = logger]_vars

\* C20: reqHandler has closed the request body when it returns, on every
\* exit path: 401, 400, 405, operation failure and success.
C20_BodyClosed ==
  Handled => conn.bodyClosed

====
